---- MODULE Spec2Model ----
(***************************************************************************)
(* A model of the dynamic mode decomposition classes of the repository:   *)
(*   pyROMs/dmd/dmd.py          class DMD      (fit, refit, accessors)    *)
(*   rom/dmd/dmd_base/__init__  class DMDBase  (rank selection, sorting)  *)
(*                                                                         *)
(* Numerical arrays are represented by what the code's control flow and   *)
(* the claims depend on: their shapes, the singular spectrum of the       *)
(* snapshot matrix (integers, descending), the eigenvalues the eigen-     *)
(* solver returns (Gaussian integers, in the solver's native order), and  *)
(* the recipe (inputs and rule) each derived array was computed by.       *)
(* A Python attribute that was never assigned is Unset; None is None.     *)
(***************************************************************************)
EXTENDS Integers, Sequences, FiniteSets, TLC

VARIABLES
    self,   \* the DMD instance: one field per attribute of the object
    ret,    \* outcome of the last call on the instance: [op, err, val]
    hist,   \* history: which entry points have been called / have returned
    rk      \* DMDBase rank selection: the last call's input and output

vars == <<self, ret, hist, rk>>

(***************************************************************************)
(* Bounds of the model.                                                    *)
(***************************************************************************)
MaxRank == 2          \* most singular values of a matrix in a call sequence
MaxCalls == 3         \* longest sequence of calls on one instance
MaxT == 2             \* final time of a time dictionary
MaxEigs == 3          \* most eigenvalues in a single fit
MaxFeatures == 3      \* most rows of a matrix handed to rank selection
MaxSnapshots == 4     \* most snapshots of a matrix handed to rank selection
MaxSigma == 3         \* largest singular value handed to rank selection
FloatDen == 10        \* float rank specifications are multiples of 1/FloatDen

(***************************************************************************)
(* Values.                                                                 *)
(***************************************************************************)
None == [tag |-> "None"]
Unset == [tag |-> "unset"]

Min(a, b) == IF a <= b THEN a ELSE b

\* Rank specifications (SVDRank = Union[int, float]): num/den, den = 1 for int.
IntSpec(n) == [kind |-> "int", num |-> n, den |-> 1]
FloatSpec(n, d) == [kind |-> "float", num |-> n, den |-> d]

\* The rank specifications the DMD instance is driven with.
DmdRankSpecs ==
    {IntSpec(n) : n \in {-2, -1} \cup 1..MaxRank} \cup {FloatSpec(1, 2)}

\* Non-increasing sequences of length n over 0..m (a singular spectrum).
RECURSIVE Spectra(_, _)
Spectra(n, m) ==
    IF n = 0 THEN {<<>>}
    ELSE UNION {{<<top>> \o t : t \in Spectra(n - 1, top)} : top \in 0..m}

\* The rank specifications rank selection is driven with: integers from -2,
\* floats from 1/FloatDen up to 1, and 3/2.
RankSpecs ==
    {IntSpec(n) : n \in (-2)..MaxSnapshots} \cup
    {FloatSpec(n, FloatDen) : n \in 1..FloatDen} \cup {FloatSpec(3, 2)}

\* The matrices X[:, :-1] handed to rank selection, with their singular values.
SvdInputs ==
    UNION {UNION {
        {[rows |-> nf, cols |-> ns - 1, s |-> s] :
            s \in Spectra(Min(nf, ns - 1), MaxSigma)}
        : ns \in 2..MaxSnapshots} : nf \in 1..MaxFeatures}

\* Eigenvalues the eigen-solver may return.
Cplx(r, i) == [re |-> r, im |-> i]
EigVals == {Cplx(1, 0), Cplx(0, 1), Cplx(0, -1), Cplx(-2, 0)}
EigOrder == <<Cplx(-2, 0), Cplx(0, -1), Cplx(1, 0), Cplx(0, 1)>>

RECURSIVE SeqsOf(_, _)
SeqsOf(S, n) ==
    IF n = 0 THEN {<<>>}
    ELSE UNION {{<<x>> \o t : t \in SeqsOf(S, n - 1)} : x \in S}

\* A snapshot matrix X (n_features x n_snapshots) together with what the
\* numerical library computes from it: s, the singular values of X[:, :-1]
\* (k of them: ones, the last z of them zero), lam, the eigenvalues of its
\* reduced operator in the solver's native order (the rank-r operator has the
\* first r of them), and whether the Gram-weighted amplitude system of X is
\* exactly singular.  bre[j] is the sign of the real part of the amplitude
\* the solvers return for the mode of the j-th native eigenvector.  ev and
\* best describe the reconstruction error of the refits: ev by (exact, opt)
\* at rank best, one more per rank away from it, a negative entry being NaN.
Matrix(k, z, lam, g) ==
    [nf |-> k, ns |-> k + 1,
     s |-> [i \in 1..k |-> IF i > k - z THEN 0 ELSE 1],
     lam |-> lam, singular |-> g,
     bre |-> [i \in 1..k |-> IF (i + z) % 2 = 1 THEN -1 ELSE 1],
     ev |-> <<1, 0, 0, 1>>, best |-> 1]

\* The matrices of a call sequence: per size a regular and a deficient one.
Snapshots ==
    {Matrix(k, z, [i \in 1..k |-> EigOrder[((i + z) % Len(EigOrder)) + 1]], z = 1) :
        k \in 1..MaxRank, z \in 0..1}

\* The matrices of a single fit: every native eigenvalue order.
AllSnapshots ==
    UNION {{Matrix(k, z, lam, g) :
                z \in 0..1, lam \in SeqsOf(EigVals, k), g \in BOOLEAN}
           : k \in 1..MaxEigs}

\* Time dictionaries handed to set_time_dict.
EmptyDict == [k \in {} |-> 0]
TimeDicts ==
    {[t0 |-> a, tend |-> MaxT, dt |-> c] : a \in 0..1, c \in 1..2}
    \cup {[t0 |-> 0, dt |-> 1], [t0 |-> 0, tend |-> 1, dt |-> 1, tf |-> 1]}

SortKeys == {"None", "abs", "real", "eigs"}

IntVal(n) == [tag |-> "int", v |-> n]

\* Outcome of a stage: the instance as the stage left it, and the exception.
Ok(st) == [err |-> "none", st |-> st]
Raise(e, st) == [err |-> e, st |-> st]
\* Outcome of a function that returns a value or raises before assigning.
Val(v) == [err |-> "none", val |-> v]
Exc(e) == [err |-> e, val |-> None]

(***************************************************************************)
(* numpy helpers.                                                          *)
(***************************************************************************)
\* np.arange(start, stop, step) for integers, step > 0.
arange(start, stop, step) ==
    LET n == IF stop > start THEN (stop - start + step - 1) \div step ELSE 0
    IN  [i \in 1..n |-> start + (i - 1) * step]

RECURSIVE SumSq(_, _)
SumSq(s, k) == IF k = 0 THEN 0 ELSE s[k] * s[k] + SumSq(s, k - 1)

Reverse(q) == [i \in 1..Len(q) |-> q[Len(q) + 1 - i]]

(***************************************************************************)
(* class DMD (pyROMs/dmd/dmd.py).                                          *)
(***************************************************************************)
__init__(svd_rank, exact, opt, sorted_eigs) ==
    [_svd_rank |-> svd_rank, _exact |-> exact, _opt |-> opt,
     _sorted_eigs |-> sorted_eigs,
     _Atilde |-> None, _eigvals |-> None, _eigvecs |-> None, _modes |-> None,
     original_time |-> EmptyDict, dmd_time |-> EmptyDict,
     \* never assigned by __init__:
     _snapshots |-> Unset, _snapshots_shape |-> Unset,
     _U |-> Unset, _s |-> Unset, _Vstar |-> Unset, _rank |-> Unset,
     _b |-> Unset]

\* A modes property that refuses to answer before mode reconstruction.
modes_checked(st) ==
    IF st._modes = None THEN Exc("NotFittedError") ELSE Val(st._modes)

\* The modes property: returns the attribute, whatever it holds.
modes(st) == Val(st._modes)

\* ROMBase.n_snapshots (the base class is not among the sources).
n_snapshots(st) == st._snapshots.X.ns

dmd_timesteps(st) ==
    arange(st.dmd_time.t0, st.dmd_time.tend + st.dmd_time.dt, st.dmd_time.dt)

\* The original_timesteps property, lines 203-216: the stop value of the
\* range is tend + tend.  Reading a key of the empty record raises KeyError.
original_timesteps(st) ==
    IF st.original_time = EmptyDict THEN Exc("KeyError")
    ELSE Val([tag |-> "array",
              v |-> arange(st.original_time.t0,
                           st.original_time.tend + st.original_time.tend,
                           st.original_time.dt)])

\* The dmd_timesteps property, lines 218-231, as a caller gets it.
dmd_timesteps_get(st) ==
    IF st.dmd_time = EmptyDict THEN Exc("KeyError")
    ELSE Val([tag |-> "array", v |-> dmd_timesteps(st)])

\* utils.format_2darray (not among the sources): a 2-D array is returned as
\* it is, with its shape.
format_2darray(X) == [X |-> X, Xshape |-> [tag |-> "array", v |-> <<X.nf, X.ns>>]]

\* RankSelector of the specification, section 4.1 (ROMBase._compute_rank is
\* not among the sources).
RankSelector(s, spec) ==
    LET n == Len(s)
        total == SumSq(s, n)
        r == IF spec.kind = "int" /\ spec.num >= 1 THEN Min(spec.num, n)
             ELSE IF spec.kind = "int" /\ spec.num \in {0, -1} THEN n
             ELSE IF spec.kind = "float" /\ spec.num > 0
                     /\ 2 * spec.num <= spec.den
                  THEN Cardinality({k \in 1..n :
                           s[1] > 0 /\ s[k] * spec.den > spec.num * s[1]})
             ELSE IF spec.kind = "float" /\ 2 * spec.num > spec.den
                     /\ spec.num < spec.den
                  THEN LET ks == {k \in 1..n : total > 0 /\
                                  SumSq(s, k) * spec.den >= spec.num * total}
                       IN  IF ks = {} THEN 0
                           ELSE CHOOSE k \in ks : \A j \in ks : k <= j
             ELSE 0
    IN  IF r < 1 \/ r > n THEN [err |-> "InvalidRankError", rank |-> 0]
        ELSE [err |-> "none", rank |-> r]

\* The possible outcomes of self._compute_rank(svd_rank).  On an instance
\* without an SVD the base-class code is unknown: it may raise or return.
_compute_rank(st, svd_rank) ==
    IF st._s = Unset
    THEN {[err |-> "AttributeError", rank |-> 0], [err |-> "none", rank |-> 1]}
    ELSE {RankSelector(st._s.v, svd_rank)}

\* Lines 400-404.  Reading an attribute that was never assigned raises;
\* np.reciprocal(0.0) is inf, so the product is not finite when a retained
\* singular value is zero.  Slices clamp to the available columns.
_compute_atilde(st) ==
    IF st._snapshots = Unset \/ st._U = Unset \/ st._rank = Unset
    THEN Exc("AttributeError")
    ELSE LET s == st._s.v
             n == Min(st._rank.v, Len(s))
         IN  Val([tag |-> "array", X |-> st._snapshots.X, n |-> n,
                      finite |-> \A i \in 1..n : s[i] > 0])

\* abs(e) < abs(f), and (e.real, e.imag) < (f.real, f.imag).
AbsLess(e, f) == e.re * e.re + e.im * e.im < f.re * f.re + f.im * f.im
RealLess(e, f) == e.re < f.re \/ (e.re = f.re /\ e.im < f.im)
KeyLess(method, e, f) == IF method = "abs" THEN AbsLess(e, f) ELSE RealLess(e, f)

\* sorted(pairs, key=k): stable, ascending in the key of the first component.
RECURSIVE InsertPair(_, _, _)
InsertPair(method, acc, p) ==
    IF acc = <<>> THEN <<p>>
    ELSE IF KeyLess(method, p[1], Head(acc)[1]) THEN <<p>> \o acc
    ELSE <<Head(acc)>> \o InsertPair(method, Tail(acc), p)

RECURSIVE sorted(_, _)
sorted(method, pairs) ==
    IF pairs = <<>> THEN <<>>
    ELSE InsertPair(method, sorted(method, SubSeq(pairs, 1, Len(pairs) - 1)),
                    pairs[Len(pairs)])

\* The sort of lines 433-436 without the reversal.
sort_pairs_asc(method, evals, evecs) ==
    LET pairs == [i \in 1..Len(evals) |-> <<evals[i], evecs[i]>>]
        out == sorted(method, pairs)
    IN  [evals |-> [i \in 1..Len(out) |-> out[i][1]],
         evecs |-> [i \in 1..Len(out) |-> out[i][2]]]

\* Lines 433-436: zip, sort on the key, reverse, unzip.
sort_pairs(method, evals, evecs) ==
    LET pairs == [i \in 1..Len(evals) |-> <<evals[i], evecs[i]>>]
        out == Reverse(sorted(method, pairs))
    IN  [evals |-> [i \in 1..Len(out) |-> out[i][1]],
         evecs |-> [i \in 1..Len(out) |-> out[i][2]]]

\* numpy.linalg.eig: raises LinAlgError on a matrix with inf or nan; the
\* eigenvector columns are named by their native position.
eig(A) ==
    IF ~A.finite THEN Exc("LinAlgError")
    ELSE Val([evals |-> SubSeq(A.X.lam, 1, A.n), evecs |-> [i \in 1..A.n |-> i]])

\* A decomposition that sorts the eigenpairs already stored, when there are
\* as many as the operator has, instead of the solver's fresh ones.
_decompose_atilde_stale(st) ==
    LET e == eig(st._Atilde) IN
    IF e.err # "none" THEN Raise(e.err, st)
    ELSE LET cached == /\ st._eigvals # None
                       /\ Len(st._eigvals.v) = Len(e.val.evals)
             evals == IF cached THEN st._eigvals.v ELSE e.val.evals
             evecs == IF cached THEN st._eigvecs.v ELSE e.val.evecs
             st1 == [st EXCEPT !._eigvals = [tag |-> "array", v |-> evals],
                               !._eigvecs = [tag |-> "array", v |-> evecs]]
         IN  IF st._sorted_eigs = "None" THEN Ok(st1)
             ELSE IF st._sorted_eigs \in {"abs", "real"}
             THEN LET p == sort_pairs(st._sorted_eigs, evals, evecs)
                  IN  Ok([st1 EXCEPT !._eigvals = [tag |-> "array", v |-> p.evals],
                                     !._eigvecs = [tag |-> "array", v |-> p.evecs]])
             ELSE Raise("AssertionError", st1)

\* Lines 406-436.
_decompose_atilde(st) ==
    LET e == eig(st._Atilde) IN
    IF e.err # "none" THEN Raise(e.err, st)
    ELSE LET st1 == [st EXCEPT !._eigvals = [tag |-> "array", v |-> e.val.evals],
                               !._eigvecs = [tag |-> "array", v |-> e.val.evecs]]
         IN  IF st._sorted_eigs = "None" THEN Ok(st1)
             ELSE IF st._sorted_eigs \in {"abs", "real"}
             THEN LET p == sort_pairs(st._sorted_eigs, e.val.evals, e.val.evecs)
                  IN  Ok([st1 EXCEPT !._eigvals = [tag |-> "array", v |-> p.evals],
                                     !._eigvecs = [tag |-> "array", v |-> p.evecs]])
             ELSE Raise("AssertionError", st1)

\* The columns of the mode matrix as sums of products of array entries.  A
\* term [b, c, si, w] stands for column c of b (U, or YV = Y.dot(V)), times
\* s_inv[si] (si = 0: no such factor), times entry w[1] of the eigenvector
\* whose native position is w[2].
Term(b, c, si, k, j) == [b |-> b, c |-> c, si |-> si, w |-> <<k, j>>]

\* Line 451, U.dot(eigvecs): column i is the sum over k of U[:, k] W[k, i].
\* Line 447, Y.dot(V) * s_inv.dot(eigvecs): s_inv.dot(eigvecs) is the row
\* vector with entries sum over k of s_inv[k] W[k, i], and * broadcasts it, so
\* column i is column i of Y.dot(V) times that entry.
mode_columns(exact, n, eigvecs) ==
    [i \in 1..Len(eigvecs) |->
        IF exact
        THEN {Term("YV", i, k, k, eigvecs[i]) : k \in 1..n}
        ELSE {Term("U", k, 0, k, eigvecs[i]) : k \in 1..n}]

\* A mode reconstruction that also overwrites the stored singular values
\* with the retained ones.
_compute_modes_trunc(st) ==
    LET n == Min(st._rank.v, Len(st._s.v)) IN
    [st EXCEPT !._modes =
        [tag |-> "array", X |-> st._snapshots.X, n |-> n,
             rule |-> IF st._exact THEN "exact" ELSE "projected",
             cols |-> st._eigvecs.v,
             columns |-> mode_columns(st._exact, n, st._eigvecs.v)],
               !._s = [tag |-> "array", v |-> SubSeq(st._s.v, 1, n)]]

\* Lines 438-451.  Both rules give an n_features x n array (in the exact
\* rule the row vector s_inv.dot(eigvecs) is broadcast over Y.dot(V)).
_compute_modes(st) ==
    LET n == Min(st._rank.v, Len(st._s.v)) IN
    [st EXCEPT !._modes =
        [tag |-> "array", X |-> st._snapshots.X, n |-> n,
             rule |-> IF st._exact THEN "exact" ELSE "projected",
             cols |-> st._eigvecs.v,
             columns |-> mode_columns(st._exact, n, st._eigvecs.v)]]

\* Lines 453-484.  multi_dot([vander, snapshots*, modes]) needs as many
\* Vandermonde columns as snapshots; numpy.linalg.solve raises on a
\* singular matrix.  The solution is returned as the solver gives it: re
\* holds the signs of the real parts, amplitude i being the coefficient of
\* mode column i.
_compute_amplitudes(st) ==
    LET re == [i \in 1..Len(st._modes.cols) |->
                  st._snapshots.X.bre[st._modes.cols[i]]] IN
    IF st._opt
    THEN LET nt == Len(dmd_timesteps(st)) IN
         IF nt # n_snapshots(st) THEN Exc("ValueError")
         ELSE IF st._snapshots.X.singular THEN Exc("LinAlgError")
         ELSE Val([tag |-> "array", rule |-> "opt", modes |-> st._modes,
                       eigvals |-> st._eigvals.v, nt |-> nt, re |-> re])
    ELSE Val([tag |-> "array", rule |-> "lstsq", modes |-> st._modes,
                  eigvals |-> <<>>, nt |-> 0, re |-> re])

\* fit, lines 257-271: ingest X, default the time records, take the SVD of
\* X[:, :-1] (economy size: min(n_features, n_snapshots - 1) singular values).
fit_svd(st, X) ==
    LET f == format_2darray(X)
        st1 == [st EXCEPT !._snapshots = [tag |-> "array", X |-> f.X],
                          !._snapshots_shape = f.Xshape]
        st2 == IF st1.original_time = EmptyDict
               THEN [st1 EXCEPT !.original_time =
                        [t0 |-> 0, tend |-> n_snapshots(st1) - 1, dt |-> 1]]
               ELSE st1
        st3 == [st2 EXCEPT !.dmd_time = st2.original_time]
    IN  [st3 EXCEPT !._U = [tag |-> "array", X |-> X, n |-> Len(X.s)],
                    !._s = [tag |-> "array", v |-> X.s],
                    !._Vstar = [tag |-> "array", X |-> X, n |-> Len(X.s)]]

\* fit, lines 244-284; o is the outcome of self._compute_rank (line 272).
\* An exception leaves the instance as the statements before it made it.
fit(st, X, o) ==
    LET st3 == fit_svd(st, X) IN
    IF o.err # "none" THEN Raise(o.err, st3) ELSE
    LET st4 == [st3 EXCEPT !._rank = IntVal(o.rank)]
        a == _compute_atilde(st4) IN
    IF a.err # "none" THEN Raise(a.err, st4) ELSE
    LET d == _decompose_atilde([st4 EXCEPT !._Atilde = a.val]) IN
    IF d.err # "none" THEN d ELSE
    LET st6 == _compute_modes(d.st)
        b == _compute_amplitudes(st6) IN
    IF b.err # "none" THEN Raise(b.err, st6)
    ELSE Ok([st6 EXCEPT !._b = b.val])

\* refit, lines 286-326: the hyper-parameters are stored first (313-315).
refit_params(st, svd_rank, exact, opt) ==
    [st EXCEPT !._svd_rank = svd_rank, !._exact = exact, !._opt = opt]

\* A refit that stores the hyper-parameters and returns.
refit_stub(st, svd_rank, exact, opt, o) ==
    Ok(refit_params(st, svd_rank, exact, opt))

refit(st, svd_rank, exact, opt, o) ==
    LET st1 == refit_params(st, svd_rank, exact, opt) IN
    IF o.err # "none" THEN Raise(o.err, st1) ELSE
    LET st2 == [st1 EXCEPT !._rank = IntVal(o.rank)]
        a == _compute_atilde(st2) IN
    IF a.err # "none" THEN Raise(a.err, st2) ELSE
    LET d == _decompose_atilde([st2 EXCEPT !._Atilde = a.val]) IN
    IF d.err # "none" THEN d ELSE
    LET st4 == _compute_modes(d.st)
        b == _compute_amplitudes(st4) IN
    IF b.err # "none" THEN Raise(b.err, st4)
    ELSE Ok([st4 EXCEPT !._b = b.val])

\* A set_time_dict that only requires the three keys to be present.
set_time_dict_superset(st, value) ==
    IF ~({"t0", "tend", "dt"} \subseteq DOMAIN value) THEN Raise("KeyError", st)
    ELSE Ok([st EXCEPT !.original_time = value, !.dmd_time = value])

\* set_time_dict, lines 328-343.
set_time_dict(st, value) ==
    IF DOMAIN value # {"t0", "tend", "dt"} THEN Raise("KeyError", st)
    ELSE Ok([st EXCEPT !.original_time = value, !.dmd_time = value])

\* ROMBase.reconstruction_error (the base class is not among the sources):
\* the relative error of the reconstruction, here read off the data set; NaN
\* is -1.  The reconstruction has one column per query time, the snapshots
\* one per snapshot.
NaN == -1
reconstruction_error(st) ==
    LET X == st._snapshots.X
        i == (IF st._modes.rule = "exact" THEN 2 ELSE 0)
             + (IF st._b.rule = "opt" THEN 1 ELSE 0) + 1
        d == IF st._modes.n >= X.best THEN st._modes.n - X.best
             ELSE X.best - st._modes.n
    IN  IF Len(dmd_timesteps(st)) # n_snapshots(st) THEN Exc("ValueError")
        ELSE IF X.ev[i] < 0 THEN Val(NaN)
        ELSE Val(X.ev[i] + d)

\* Line 353: itertools.product(ranks, [False, True], [False, True]).
cases(ns) ==
    [c \in 1..(4 * (ns - 1)) |->
        [rank |-> ((c - 1) \div 4) + 1,
         exact |-> ((c - 1) \div 2) % 2 = 1,
         opt |-> (c - 1) % 2 = 1]]

\* np.argmin: the index of the first NaN if there is one, else of the first
\* minimum.
argmin_nan(errors) ==
    LET nans == {i \in 1..Len(errors) : errors[i] = NaN}
        pick(S) == CHOOSE i \in S : \A j \in S : i <= j
    IN  IF nans # {} THEN [err |-> "none", val |-> pick(nans)]
        ELSE [err |-> "none",
              val |-> pick({i \in 1..Len(errors) :
                               \A j \in 1..Len(errors) : errors[i] <= errors[j]})]

\* np.nanargmin (line 364): the index of the first minimum among the entries
\* that are not NaN; ValueError when all are.
nanargmin(errors) ==
    LET nums == {i \in 1..Len(errors) : errors[i] # NaN}
        mins == {i \in nums : \A j \in nums : errors[i] <= errors[j]}
    IN  IF nums = {} THEN [err |-> "ValueError", val |-> 0]
        ELSE [err |-> "none", val |-> CHOOSE i \in mins : \A j \in mins : i <= j]

\* self.refit(rank, exact, opt) with the rank outcome of the base class.
refit_case(st, c) ==
    LET svd_rank == IntSpec(c.rank)
        o == CHOOSE x \in _compute_rank(refit_params(st, svd_rank, c.exact, c.opt),
                                        svd_rank) : TRUE
    IN  refit(st, svd_rank, c.exact, c.opt, o)

\* Lines 361-362, one pass of the loop on the outcome r of the refit: the
\* errors with the reconstruction error of the refitted instance appended.
append_error(r, errors) ==
    IF r.err # "none" THEN [err |-> r.err, st |-> r.st, errors |-> errors]
    ELSE LET e == reconstruction_error(r.st) IN
         IF e.err # "none" THEN [err |-> e.err, st |-> r.st, errors |-> errors]
         ELSE [err |-> "none", st |-> r.st, errors |-> Append(errors, e.val)]

\* Lines 360-362: refit with each case in turn and collect the errors; l is
\* the outcome of the passes made so far.
RECURSIVE refit_all(_, _, _)
refit_all(l, cs, c) ==
    IF c > Len(cs) \/ l.err # "none" THEN l
    ELSE CHOOSE x \in {refit_all(n, cs, c + 1) :
                          n \in {append_error(r, l.errors) :
                                    r \in {refit_case(l.st, cs[c])}}} : TRUE

\* Lines 364-366: the first case of least error, stored and refitted.
refit_best(l, cs) ==
    LET a == nanargmin(l.errors) IN
    IF a.err # "none" THEN Raise(a.err, l.st)
    ELSE refit_case(refit_params(l.st, IntSpec(cs[a.val].rank),
                                 cs[a.val].exact, cs[a.val].opt),
                    cs[a.val])

\* optimize_hyperparameters, lines 345-373.
optimize_hyperparameters(st) ==
    IF st._snapshots = Unset THEN Raise("AttributeError", st)
    ELSE LET cs == cases(n_snapshots(st)) IN
         CHOOSE x \in {IF l.err # "none" THEN Raise(l.err, l.st)
                       ELSE refit_best(l, cs) :
                          l \in {refit_all([err |-> "none", st |-> st,
                                            errors |-> <<>>], cs, 1)}} : TRUE

(***************************************************************************)
(* class DMDBase (rom/dmd/dmd_base/__init__.py).                           *)
(***************************************************************************)
\* q[:n] for n >= 0.
SliceTo(q, n) == SubSeq(q, 1, Min(n, Len(q)))

\* np.searchsorted(np.cumsum(s**2 / sum(s**2)), v) for v = num/den: the
\* number of cumulative energies below v.  With no energy at all every
\* quotient is nan, which sorts after every number.
searchsorted_energy(s, num, den) ==
    LET total == SumSq(s, Len(s)) IN
    IF total = 0 THEN 0
    ELSE Cardinality({k \in 1..Len(s) : SumSq(s, k) * den < num * total})

\* Rank choices that differ from lines 365-372 in the float branch: without
\* the + 1, and with the relative-magnitude count of the DMD docstring for
\* floats up to 0.5.
svd_rank_choice_nooffset(X, svd_rank) ==
    IF 0 < svd_rank.num /\ svd_rank.num < svd_rank.den
    THEN searchsorted_energy(X.s, svd_rank.num, svd_rank.den)
    ELSE IF svd_rank.num >= svd_rank.den /\ svd_rank.kind = "int"
    THEN Min(svd_rank.num, Len(X.s))
    ELSE X.cols

svd_rank_choice_relative(X, svd_rank) ==
    IF 0 < svd_rank.num /\ 2 * svd_rank.num <= svd_rank.den
    THEN Cardinality({k \in 1..Len(X.s) :
             X.s[1] > 0 /\ X.s[k] * svd_rank.den > svd_rank.num * X.s[1]})
    ELSE IF 0 < svd_rank.num /\ svd_rank.num < svd_rank.den
    THEN searchsorted_energy(X.s, svd_rank.num, svd_rank.den) + 1
    ELSE IF svd_rank.num >= svd_rank.den /\ svd_rank.kind = "int"
    THEN Min(svd_rank.num, Len(X.s))
    ELSE X.cols

\* The rank chosen at lines 365-372; U has Len(s) columns, X has X.cols.
svd_rank_choice(X, svd_rank) ==
    IF 0 < svd_rank.num /\ svd_rank.num < svd_rank.den
    THEN searchsorted_energy(X.s, svd_rank.num, svd_rank.den) + 1
    ELSE IF svd_rank.num >= svd_rank.den /\ svd_rank.kind = "int"
    THEN Min(svd_rank.num, Len(X.s))
    ELSE X.cols

\* _compute_svd, lines 362-376: never raises; returns the sliced triple (U
\* and V by their number of columns) and stores Sigma and U.
_compute_svd(X, svd_rank) ==
    LET rank == svd_rank_choice(X, svd_rank) IN
    [err |-> "none", rank |-> rank,
     U |-> Min(rank, Len(X.s)), s |-> SliceTo(X.s, rank),
     V |-> Min(rank, Len(X.s)), Sigma |-> X.s]

(***************************************************************************)
(* The DMD instance as a state machine: one action per public operation.  *)
(***************************************************************************)
Self == [tag |-> "self"]
Returned(op, r) ==
    [op |-> op, err |-> r.err, val |-> IF r.err = "none" THEN Self ELSE None]

Idle == [tag |-> "idle"]

\* History of the calls on the instance: their number, whether fit was ever
\* called, whether a fit ever returned, and whether the last call was a refit
\* that returned right after a refit that returned with the same arguments.
NoCalls ==
    [ncalls |-> 0, fit_called |-> FALSE, fit_done |-> FALSE, repeat |-> FALSE]
Called(h, fitting, done, rep) ==
    [ncalls |-> h.ncalls + 1,
     fit_called |-> h.fit_called \/ fitting,
     fit_done |-> h.fit_done \/ done,
     repeat |-> rep]

Init ==
    /\ \E sorted_eigs \in SortKeys :
          self = __init__(IntSpec(0), FALSE, FALSE, sorted_eigs)
    /\ ret = [op |-> "__init__", err |-> "none", val |-> None]
    /\ hist = NoCalls
    /\ rk = Idle

FitOn(Xs) ==
    \E X \in Xs :
      \E o \in _compute_rank(fit_svd(self, X), self._svd_rank) :
        LET r == fit(self, X, o) IN
        /\ self' = r.st
        /\ ret' = Returned("fit", r)
        /\ hist' = Called(hist, TRUE, r.err = "none", FALSE)
        /\ UNCHANGED rk

Fit ==
    /\ hist.ncalls < MaxCalls
    /\ FitOn(Snapshots)

Refit ==
    /\ hist.ncalls < MaxCalls
    /\ \E svd_rank \in DmdRankSpecs, exact \in BOOLEAN, opt \in BOOLEAN :
        \E o \in _compute_rank(refit_params(self, svd_rank, exact, opt), svd_rank) :
          LET r == refit(self, svd_rank, exact, opt, o) IN
          /\ self' = r.st
          /\ ret' = Returned("refit", r)
          /\ hist' = Called(hist, FALSE, FALSE,
                            /\ ret.op = "refit" /\ ret.err = "none"
                            /\ r.err = "none"
                            /\ svd_rank = self._svd_rank
                            /\ exact = self._exact /\ opt = self._opt)
          /\ UNCHANGED rk

SetTimeDict ==
    /\ hist.ncalls < MaxCalls
    /\ \E value \in TimeDicts :
        LET r == set_time_dict(self, value) IN
        /\ self' = r.st
        /\ ret' = [op |-> "set_time_dict", err |-> r.err, val |-> None,
                   arg |-> value]
        /\ hist' = Called(hist, FALSE, FALSE, FALSE)
        /\ UNCHANGED rk

Modes ==
    /\ hist.ncalls < MaxCalls
    /\ ret' = [op |-> "modes"] @@ modes(self)
    /\ hist' = Called(hist, FALSE, FALSE, FALSE)
    /\ UNCHANGED <<self, rk>>

Next == Fit \/ Refit \/ SetTimeDict \/ Modes

Spec == Init /\ [][Next]_vars

(***************************************************************************)
(* A single fit of a freshly constructed instance, for every constructor  *)
(* argument and every matrix of AllSnapshots.                              *)
(***************************************************************************)
InitFit ==
    /\ \E svd_rank \in DmdRankSpecs \cup {IntSpec(0)}, exact \in BOOLEAN,
          opt \in BOOLEAN, sorted_eigs \in SortKeys :
          self = __init__(svd_rank, exact, opt, sorted_eigs)
    /\ ret = [op |-> "__init__", err |-> "none", val |-> None]
    /\ hist = NoCalls
    /\ rk = Idle

FitOnce ==
    /\ hist.ncalls = 0
    /\ FitOn(AllSnapshots)

NextFit == FitOnce

SpecFit == InitFit /\ [][NextFit]_vars

(***************************************************************************)
(* DMDBase rank selection applied to every input of SvdInputs x RankSpecs. *)
(***************************************************************************)
InitRank ==
    /\ self = __init__(IntSpec(0), FALSE, FALSE, "None")
    /\ ret = [op |-> "__init__", err |-> "none", val |-> None]
    /\ hist = NoCalls
    /\ rk = Idle

ComputeSvd ==
    /\ rk = Idle
    /\ \E X \in SvdInputs, svd_rank \in RankSpecs :
          rk' = [tag |-> "done", X |-> X, svd_rank |-> svd_rank,
                 out |-> _compute_svd(X, svd_rank)]
    /\ UNCHANGED <<self, ret, hist>>

NextRank == ComputeSvd

SpecRank == InitRank /\ [][NextRank]_vars

(***************************************************************************)
(* class DMDBase: validation, mode reconstruction, amplitudes and sorting, *)
(* each applied once to every input of its catalogue.                      *)
(***************************************************************************)
\* Inputs of _validate_data: 2-D arrays by shape, and lists of 1-D arrays by
\* the lengths of their members.
ValidateInputs ==
    {[kind |-> "ndarray", ndim |-> 2, shape |-> <<r, c>>] :
        r \in 0..MaxFeatures, c \in 0..MaxSnapshots}
    \cup {[kind |-> "list", shapes |-> q] :
            q \in UNION {SeqsOf(1..2, n) : n \in 0..MaxRank}}

\* Lines 532-561.
_validate_data(X) ==
    IF X.kind = "ndarray" /\ X.ndim = 2
    THEN [err |-> "none", snapshots |-> X.shape, snapshots_shape |-> None]
    ELSE LET input_shapes == X.shapes IN
         IF Cardinality({input_shapes[i] : i \in 1..Len(input_shapes)}) # 1
         THEN [err |-> "ValueError", snapshots |-> <<>>, snapshots_shape |-> None]
         ELSE [err |-> "none",
               snapshots |-> <<input_shapes[1], Len(input_shapes)>>,
               snapshots_shape |-> [tag |-> "array", v |-> <<input_shapes[1]>>]]

\* Lines 405-425, by shape: U is n_features x r, Y @ V is n_features x r,
\* the eigenvectors are r x r and inv_s is 1-D of length r, so Y @ V @ inv_s
\* is 1-D of length n_features, and its product with the eigenvectors needs
\* n_features = r.
DMDBase_compute_modes(nf, r, exact) ==
    IF ~exact THEN [err |-> "none", shape |-> <<nf, r>>]
    ELSE IF nf # r THEN [err |-> "ValueError", shape |-> <<>>]
    ELSE [err |-> "none", shape |-> <<r>>]

\* Time records of DMDBase (keys t0, tf, dt) on n grid points.
BaseTime(t0, dt, n) == [t0 |-> t0, tf |-> t0 + (n - 1) * dt, dt |-> dt]

\* Lines 177-190: arange(t0, tf + dt, dt), cut at tf.
DMDBase_dmd_timesteps(dmd_time) ==
    SelectSeq(arange(dmd_time.t0, dmd_time.tf + dmd_time.dt, dmd_time.dt),
              LAMBDA x : x <= dmd_time.tf)

\* Exponents are fractions [num, den].
Frac(n, d) == [num |-> n, den |-> d]

\* Lines 282-294: the exponents of the dynamics accessor, (t - t0) / dt.
DMDBase_dynamics_powers(snapshot_time, dmd_time) ==
    LET ts == DMDBase_dmd_timesteps(dmd_time) IN
    [j \in 1..Len(ts) |-> Frac(ts[j] - snapshot_time.t0, snapshot_time.dt)]

\* Lines 427-463.  With opt the Vandermonde matrix is exp(omega * t) with
\* omega = log(lambda) / dt (lines 259-268): lambda to the power t / dt.  re
\* are the signs of the real parts of the solver's amplitudes; the loop of
\* lines 458-462 negates the negative ones.
DMDBase_compute_amplitudes(opt, ns, snapshot_time, dmd_time, re) ==
    LET ts == DMDBase_dmd_timesteps(dmd_time)
        b == [i \in 1..Len(re) |-> IF re[i] < 0 THEN -re[i] ELSE re[i]]
    IN  IF ~opt THEN [err |-> "none", re |-> b, vander |-> <<>>]
        ELSE IF Len(ts) # ns THEN [err |-> "ValueError", re |-> <<>>, vander |-> <<>>]
        ELSE [err |-> "none", re |-> b,
              vander |-> [j \in 1..Len(ts) |-> Frac(ts[j], snapshot_time.dt)]]

\* np.argsort of keys that are pairwise different.
argsort(keys) ==
    [i \in 1..Len(keys) |->
        CHOOSE j \in 1..Len(keys) :
            Cardinality({k \in 1..Len(keys) : keys[k] < keys[j]}) = i - 1]

\* The fitted arrays _sort_modes works on: eigenvalues, and per position the
\* native index of the eigenvector and of the mode column, and the real part
\* of the amplitude.
BaseSortKeys == {"None", "eigs", "amps", "abs", "real", "bogus"}
BaseFitted ==
    {[eigenvalues |-> [i \in 1..n |-> EigOrder[((i + d - 1) % Len(EigOrder)) + 1]],
      eigenvectors |-> [i \in 1..n |-> i], modes |-> [i \in 1..n |-> i],
      b |-> [i \in 1..n |-> (i * m) % 5]] :
        n \in 1..MaxEigs, d \in 0..1, m \in 1..4}

\* Lines 465-477: any other sort method leaves the arrays as they are.
_sort_modes(st, sort_method) ==
    IF sort_method \in {"eigs", "amps"}
    THEN LET ind == IF sort_method = "eigs"
                    THEN Reverse(argsort([i \in 1..Len(st.eigenvalues) |->
                                             st.eigenvalues[i].re]))
                    ELSE Reverse(argsort(st.b))
         IN  [err |-> "none",
              eigenvalues |-> [i \in 1..Len(ind) |-> st.eigenvalues[ind[i]]],
              eigenvectors |-> [i \in 1..Len(ind) |-> st.eigenvectors[ind[i]]],
              modes |-> [i \in 1..Len(ind) |-> st.modes[ind[i]]],
              b |-> [i \in 1..Len(ind) |-> st.b[ind[i]]]]
    ELSE [err |-> "none", eigenvalues |-> st.eigenvalues,
          eigenvectors |-> st.eigenvectors, modes |-> st.modes, b |-> st.b]

ValidateData ==
    /\ rk = Idle
    /\ \E X \in ValidateInputs :
          rk' = [tag |-> "validated", X |-> X, out |-> _validate_data(X)]
    /\ UNCHANGED <<self, ret, hist>>

ComputeModesBase ==
    /\ rk = Idle
    /\ \E nf \in 1..MaxFeatures, r \in 1..MaxRank, exact \in BOOLEAN :
          /\ r <= nf
          /\ rk' = [tag |-> "modes", nf |-> nf, r |-> r, exact |-> exact,
                    out |-> DMDBase_compute_modes(nf, r, exact)]
    /\ UNCHANGED <<self, ret, hist>>

ComputeAmplitudesBase ==
    /\ rk = Idle
    /\ \E opt \in BOOLEAN, ns \in 2..MaxSnapshots, t0 \in 0..1, dt \in 1..MaxT,
          re \in UNION {SeqsOf({-1, 0, 1}, n) : n \in 1..MaxRank} :
          LET time == BaseTime(t0, dt, ns) IN
          rk' = [tag |-> "amplitudes", opt |-> opt, ns |-> ns,
                 snapshot_time |-> time, dmd_time |-> time, re |-> re,
                 out |-> DMDBase_compute_amplitudes(opt, ns, time, time, re)]
    /\ UNCHANGED <<self, ret, hist>>

SortModes ==
    /\ rk = Idle
    /\ \E st \in BaseFitted, sort_method \in BaseSortKeys :
          /\ \A i, j \in 1..Len(st.b) :
                i # j => /\ st.b[i] # st.b[j]
                         /\ st.eigenvalues[i].re # st.eigenvalues[j].re
          /\ rk' = [tag |-> "sorted", st |-> st, sort_method |-> sort_method,
                    out |-> _sort_modes(st, sort_method)]
    /\ UNCHANGED <<self, ret, hist>>

\* The fit of a concrete subclass, called as self.fit(X, False): it fits with
\* the rank in force, which the instance's fit log records.
DMDBase_fit(st) == [st EXCEPT !.fits = Append(@, st.svd_rank)]

\* The loop of compute_rankwise_errors, lines 508-514, from its k-th round on:
\* the rank is set to r + 1, the model is fitted, the error of that fit is
\* appended to errors and r is appended to ranks.
RECURSIVE rankwise_loop(_, _, _, _, _)
rankwise_loop(st, rs, k, errors, ranks) ==
    IF k > Len(rs) THEN [st |-> st, errors |-> errors, ranks |-> ranks]
    ELSE LET fitted == DMDBase_fit([st EXCEPT !.svd_rank = rs[k] + 1])
             error == [tag |-> "error", svd_rank |-> fitted.svd_rank]
         IN  rankwise_loop(fitted, rs, k + 1,
                           Append(errors, error), Append(ranks, rs[k]))

\* compute_rankwise_errors, lines 479-519.
compute_rankwise_errors(st, skip, end) ==
    LET orig_rank == st.svd_rank
        top == Min(st.snapshots.nf, st.snapshots.ns) - 1
        last == IF end = -1 \/ end > top THEN top ELSE end
        l == rankwise_loop(st, arange(0, last, skip), 1, <<>>, <<>>)
    IN  [st |-> DMDBase_fit([l.st EXCEPT !.svd_rank = orig_rank]),
         ranks |-> l.ranks, errors |-> l.errors]

ComputeRankwiseErrors ==
    /\ rk = Idle
    /\ \E nf \in 1..MaxFeatures, ns \in 1..MaxSnapshots, svd_rank \in 0..MaxRank,
          skip \in 1..2, end \in {-1} \cup 1..MaxSnapshots :
          LET st == [snapshots |-> [nf |-> nf, ns |-> ns],
                     svd_rank |-> svd_rank, fits |-> <<svd_rank>>]
          IN  rk' = [tag |-> "rankwise", st |-> st, skip |-> skip, end |-> end,
                     out |-> compute_rankwise_errors(st, skip, end)]
    /\ UNCHANGED <<self, ret, hist>>

NextBase ==
    \/ ValidateData
    \/ ComputeModesBase
    \/ ComputeAmplitudesBase
    \/ SortModes
    \/ ComputeRankwiseErrors

SpecBase == InitRank /\ [][NextBase]_vars

(***************************************************************************)
(* A fit followed by the hyper-parameter search, for every reconstruction  *)
(* error table of OptSnapshots.                                            *)
(***************************************************************************)
ErrVals == {NaN, 0, 1}
OptSnapshots ==
    {[X EXCEPT !.ev = ev, !.best = b] :
        X \in Snapshots, ev \in SeqsOf(ErrVals, 4), b \in 1..MaxRank}

FitOpt ==
    /\ hist.ncalls = 0
    /\ FitOn(OptSnapshots)

OptimizeHyperparameters ==
    /\ hist.ncalls = 1
    /\ LET r == optimize_hyperparameters(self) IN
       /\ self' = r.st
       /\ ret' = [op |-> "optimize_hyperparameters", err |-> r.err, val |-> None]
       /\ hist' = Called(hist, FALSE, FALSE, FALSE)
       /\ UNCHANGED rk

NextOpt == FitOpt \/ OptimizeHyperparameters

SpecOpt == Init /\ [][NextOpt]_vars

(***************************************************************************)
(* The time records: fits, set_time_dict and the two time accessors.       *)
(***************************************************************************)
OriginalTimesteps ==
    /\ hist.ncalls < MaxCalls
    /\ ret' = [op |-> "original_timesteps"] @@ original_timesteps(self)
    /\ hist' = Called(hist, FALSE, FALSE, FALSE)
    /\ UNCHANGED <<self, rk>>

DmdTimesteps ==
    /\ hist.ncalls < MaxCalls
    /\ ret' = [op |-> "dmd_timesteps"] @@ dmd_timesteps_get(self)
    /\ hist' = Called(hist, FALSE, FALSE, FALSE)
    /\ UNCHANGED <<self, rk>>

NextTime == Fit \/ SetTimeDict \/ OriginalTimesteps \/ DmdTimesteps

SpecTime == Init /\ [][NextTime]_vars

(***************************************************************************)
(* Fits only: no call of set_time_dict on the instance.                    *)
(***************************************************************************)
NextFits == Fit

SpecFits == Init /\ [][NextFits]_vars

(***************************************************************************)
(* The claims.                                                             *)
(***************************************************************************)
IsCall(op) == hist'.ncalls = hist.ncalls + 1 /\ ret'.op = op

\* C1: a fit or refit that fails leaves the instance exactly as it was
\* before the call (no partial state is committed).
C1_NoPartialState ==
    [][(IsCall("fit") \/ IsCall("refit")) /\ ret'.err # "none"
         => self' = self]_vars

C3_RefitBeforeFitFails ==
    (ret.op = "refit" /\ ~hist.fit_called) =>
        /\ ret.err # "none"
        /\ self._Atilde = None /\ self._eigvals = None
        /\ self._eigvecs = None /\ self._modes = None /\ self._b = Unset

C3_Witness ==
    ret.op = "refit" /\ ~hist.fit_called /\ ret.err = "AttributeError"

\* C4: a refit that returns leaves the snapshots, the untruncated SVD factors
\* and both time records as they were, and the rank, operator, eigenpairs,
\* modes and amplitudes are those of the new hyper-parameters.
C4_RefitReusesSvd ==
    [][IsCall("refit") /\ ret'.err = "none" =>
         /\ self'._snapshots = self._snapshots
         /\ self'._snapshots_shape = self._snapshots_shape
         /\ self'._U = self._U /\ self'._s = self._s
         /\ self'._Vstar = self._Vstar
         /\ self'.original_time = self.original_time
         /\ self'.dmd_time = self.dmd_time
         /\ self'._sorted_eigs = self._sorted_eigs
         /\ self'._Atilde.n = self'._rank.v
         /\ Len(self'._eigvals.v) = self'._rank.v
         /\ self'._modes.n = self'._rank.v
         /\ self'._modes.rule = (IF self'._exact THEN "exact" ELSE "projected")
         /\ self'._modes.cols = self'._eigvecs.v
         /\ self'._b.modes = self'._modes
         /\ self'._b.rule = (IF self'._opt THEN "opt" ELSE "lstsq")]_vars

C4_Witness ==
    /\ ret.op = "refit" /\ ret.err = "none"
    /\ self._rank.v < Len(self._s.v)
    /\ self.original_time # [t0 |-> 0, tend |-> n_snapshots(self) - 1, dt |-> 1]

\* C5: a refit that returns right after a refit that returned with the same
\* hyper-parameters leaves rank, operator, eigenpairs, modes and amplitudes
\* as the first one made them.
C5_IdempotentRefit ==
    [][/\ ret.op = "refit" /\ ret.err = "none"
       /\ IsCall("refit") /\ ret'.err = "none"
       /\ self'._svd_rank = self._svd_rank
       /\ self'._exact = self._exact /\ self'._opt = self._opt
       => /\ self'._rank = self._rank
          /\ self'._Atilde = self._Atilde
          /\ self'._eigvals = self._eigvals
          /\ self'._eigvecs = self._eigvecs
          /\ self'._modes = self._modes
          /\ self'._b = self._b]_vars

C5_Witness ==
    /\ hist.repeat /\ ret.op = "refit" /\ ret.err = "none"
    /\ self._sorted_eigs = "abs" /\ Len(self._eigvals.v) >= 2

\* C6: for every accepted rank specification (positive integer, float in
\* (0,1), 0, -1) the number of singular triplets rank selection retains is
\* at least 1 and at most min(n_features, n_snapshots - 1).
Accepted(spec) ==
    \/ spec.kind = "int" /\ spec.num >= -1
    \/ spec.kind = "float" /\ 0 < spec.num /\ spec.num < spec.den

C6_RankBounds ==
    (rk.tag = "done" /\ Accepted(rk.svd_rank)) =>
        /\ 1 <= Len(rk.out.s)
        /\ Len(rk.out.s) <= Min(rk.X.rows, rk.X.cols)
        /\ rk.out.U = Len(rk.out.s) /\ rk.out.V = Len(rk.out.s)

C6_Witness ==
    /\ rk.tag = "done" /\ rk.svd_rank = IntSpec(-1)
    /\ rk.X.rows < rk.X.cols /\ Len(rk.out.s) = rk.X.rows

\* C7: for a float rho in (0, 0.5] and a spectrum that is not all zero, the
\* selected rank is the number of singular values with s[k]/s[0] > rho.
LowFloat(spec) ==
    spec.kind = "float" /\ 0 < spec.num /\ 2 * spec.num <= spec.den
RelativeCount(s, spec) ==
    Cardinality({k \in 1..Len(s) :
        s[1] > 0 /\ s[k] * spec.den > spec.num * s[1]})

C7_RelativeThreshold ==
    (rk.tag = "done" /\ LowFloat(rk.svd_rank) /\ rk.X.s[1] > 0) =>
        Len(rk.out.s) = RelativeCount(rk.X.s, rk.svd_rank)

OutOfRange(spec) ==
    \/ spec.kind = "int" /\ spec.num < -1
    \/ spec.kind = "float" /\ spec.num >= spec.den

C9_InvalidRankError ==
    (rk.tag = "done" /\ OutOfRange(rk.svd_rank)) =>
        rk.out.err = "InvalidRankError"

\* C10: after a fit that returns, with sorted_eigs "abs" the eigenvalues are
\* non-increasing in modulus, and with "real" non-increasing in (Re, Im)
\* lexicographically.
AbsSq(e) == e.re * e.re + e.im * e.im
LexGeq(e, f) == e.re > f.re \/ (e.re = f.re /\ e.im >= f.im)

Fitted == ret.op \in {"fit", "refit"} /\ ret.err = "none"
NativeEig == eig(self._Atilde).val

C11_LockStepPermutation ==
    (Fitted /\ self._sorted_eigs \in {"abs", "real"}) =>
        LET n == Len(NativeEig.evals)
            p == self._eigvecs.v
            unsorted == mode_columns(self._exact, n, NativeEig.evecs)
        IN  /\ Len(p) = n /\ {p[i] : i \in 1..n} = 1..n
            /\ \A i \in 1..n :
                  /\ self._eigvals.v[i] = NativeEig.evals[p[i]]
                  /\ self._modes.columns[i] = unsorted[p[i]]
                  /\ self._b.re[i] = self._snapshots.X.bre[p[i]]

\* C13: set_time_dict accepts a dictionary exactly when its keys are t0,
\* tend and dt; otherwise it fails with KeyError; when it accepts, both time
\* records equal the dictionary.
C13_SetTimeDictKeys ==
    ret.op = "set_time_dict" =>
        /\ ret.err = "none" <=> DOMAIN ret.arg = {"t0", "tend", "dt"}
        /\ ret.err # "none" => ret.err = "KeyError"
        /\ ret.err = "none" =>
              self.original_time = ret.arg /\ self.dmd_time = ret.arg

C13_Witness ==
    /\ ret.op = "set_time_dict" /\ ret.err = "none"
    /\ ret.arg.t0 = 1 /\ ret.arg.dt = 2
    /\ self.original_time = ret.arg /\ hist.fit_done

\* C14: after a fit that returns, every amplitude has a non-negative real
\* part.
C14_NonNegativeAmplitudes ==
    (ret.op = "fit" /\ ret.err = "none") =>
        \A i \in 1..Len(self._b.re) : self._b.re[i] >= 0

\* C15: after a fit or refit that returns with exact = true, mode column i is
\* X1 V diag(1/s) W[:, i]: the sum over k of column k of X1 V, times 1/s[k],
\* times entry k of eigenvector i.
C15_ExactModesFormula ==
    (Fitted /\ self._exact) =>
        \A i \in 1..Len(self._modes.columns) :
            self._modes.columns[i] =
                {Term("YV", k, k, k, self._eigvecs.v[i]) : k \in 1..self._modes.n}

\* C19: the reduced operator never holds an infinite or undefined entry: with
\* a zero among the retained singular values no operator is built.
C19_NoNonFiniteOperator ==
    self._Atilde # None => self._Atilde.finite

\* C12: a sort key that is none of the supported values is rejected with an
\* error where it is detected, and is never treated as 'no sorting'.
C12_UnknownSortKeyRejected ==
    (rk.tag = "sorted"
        /\ rk.sort_method \notin {"None", "abs", "real", "eigs", "amps"}) =>
        rk.out.err # "none"

\* C16: for both mode policies and every rank r, mode reconstruction returns
\* a matrix of shape n_features x r.
C16_ModeShape ==
    rk.tag = "modes" =>
        rk.out.err = "none" /\ rk.out.shape = <<rk.nf, rk.r>>

\* C18: validation fails with ValueError for every input that is empty,
\* ragged, or has fewer than 2 columns.
Columns(X) == IF X.kind = "ndarray" THEN X.shape[2] ELSE Len(X.shapes)
Rows(X) == IF X.kind = "ndarray" THEN X.shape[1] ELSE X.shapes[1]
Ragged(X) ==
    X.kind = "list" /\ \E i, j \in 1..Len(X.shapes) : X.shapes[i] # X.shapes[j]

C18_ValidationRejects ==
    (rk.tag = "validated"
        /\ (Columns(rk.X) < 2 \/ Ragged(rk.X) \/ Rows(rk.X) = 0)) =>
        rk.out.err = "ValueError"

\* C20: with opt = true the exponent of lambda[i] in Vandermonde column j is
\* (t_j - t0) / dt, the exponent the dynamics accessor uses for query time
\* t_j.
C20_VandermondeExponent ==
    (rk.tag = "amplitudes" /\ rk.opt /\ rk.out.err = "none") =>
        LET dyn == DMDBase_dynamics_powers(rk.snapshot_time, rk.dmd_time) IN
        /\ Len(rk.out.vander) = Len(dyn)
        /\ \A j \in 1..Len(dyn) :
              rk.out.vander[j].num * dyn[j].den =
                  dyn[j].num * rk.out.vander[j].den

\* C17: when optimize_hyperparameters returns, the stored svd_rank, exact and
\* opt are those of a combination of {1..n_snapshots-1} x {F,T} x {F,T} whose
\* reconstruction error is not NaN and is minimal among the errors that are
\* not NaN, and rank, modes and amplitudes are those of that combination.
ErrOf(X, rank, exact, opt) ==
    LET e == X.ev[(IF exact THEN 2 ELSE 0) + (IF opt THEN 1 ELSE 0) + 1]
    IN  IF e < 0 THEN NaN
        ELSE e + (IF rank >= X.best THEN rank - X.best ELSE X.best - rank)

C17_OptimalHyperparameters ==
    (ret.op = "optimize_hyperparameters" /\ ret.err = "none") =>
        LET X == self._snapshots.X
            e == ErrOf(X, self._svd_rank.num, self._exact, self._opt)
        IN  /\ self._svd_rank.kind = "int"
            /\ self._svd_rank.num \in 1..(X.ns - 1)
            /\ e # NaN
            /\ \A rank \in 1..(X.ns - 1), exact \in BOOLEAN, opt \in BOOLEAN :
                  ErrOf(X, rank, exact, opt) # NaN =>
                      e <= ErrOf(X, rank, exact, opt)
            /\ self._rank.v = self._svd_rank.num
            /\ self._modes.n = self._svd_rank.num
            /\ self._modes.rule = (IF self._exact THEN "exact" ELSE "projected")
            /\ self._b.rule = (IF self._opt THEN "opt" ELSE "lstsq")
            /\ self._b.modes = self._modes

C17_Witness ==
    /\ ret.op = "optimize_hyperparameters" /\ ret.err = "none"
    /\ self._snapshots.X.ns = 3
    /\ self._svd_rank.num = 1 /\ self._exact /\ ~self._opt
    /\ self._snapshots.X.ev[1] = NaN /\ self._snapshots.X.ev[4] = 0

\* C21: original_timesteps returns the times t0, t0 + dt, ..., tend of the
\* snapshot-time record (n_snapshots of them under the default record).
Grid(T) == [j \in 1..(((T.tend - T.t0) \div T.dt) + 1) |-> T.t0 + (j - 1) * T.dt]

C21_OriginalTimesteps ==
    (ret.op = "original_timesteps" /\ ret.err = "none"
        /\ (self.original_time.tend - self.original_time.t0)
              % self.original_time.dt = 0) =>
        ret.val.v = Grid(self.original_time)

\* C22: after a fit that returns on an instance on which set_time_dict was
\* never called, the snapshot-time record is {t0: 0, tend: n - 1, dt: 1} for
\* the n snapshots of the matrix just fitted, and the query-time record equals
\* it.
C22_DefaultTimeRederived ==
    (ret.op = "fit" /\ ret.err = "none") =>
        /\ self.original_time =
              [t0 |-> 0, tend |-> n_snapshots(self) - 1, dt |-> 1]
        /\ self.dmd_time = self.original_time

\* C23: compute_rankwise_errors returns, with each recorded error, the rank
\* of the fit that produced it, and leaves svd_rank as it was before the call.
C23_RanksUsed ==
    rk.tag = "rankwise" =>
        /\ Len(rk.out.ranks) = Len(rk.out.errors)
        /\ \A k \in 1..Len(rk.out.ranks) :
              rk.out.ranks[k] = rk.out.errors[k].svd_rank
        /\ rk.out.st.svd_rank = rk.st.svd_rank

\* C24: for a query-time record with dt > 0 and t0 <= tend, dmd_timesteps
\* starts at t0, advances by dt and has every element in [t0, tend].
C24_DmdTimestepsInInterval ==
    (ret.op = "dmd_timesteps" /\ ret.err = "none"
        /\ self.dmd_time.dt > 0 /\ self.dmd_time.t0 <= self.dmd_time.tend) =>
        LET ts == ret.val.v IN
        /\ Len(ts) >= 1 /\ ts[1] = self.dmd_time.t0
        /\ \A j \in 1..(Len(ts) - 1) : ts[j + 1] - ts[j] = self.dmd_time.dt
        /\ \A j \in 1..Len(ts) :
              self.dmd_time.t0 <= ts[j] /\ ts[j] <= self.dmd_time.tend

====
